---- MODULE Spec2Model ----
(***************************************************************************)
(* grux: GridWriter (draw / set one element at (x, y)) and DisplayGrid     *)
(* (print / to_string) for [[T; W]; H], Vec<Vec<T>> and String, and the    *)
(* sprites of grux::art (Line, FillRect, BorderRect).                      *)
(*                                                                         *)
(* A String is modelled as the sequence of its UTF-8 bytes, a char as the  *)
(* byte sequence of its encoding.  Elements of arrays and vectors are      *)
(* natural numbers, whose Display form is their decimal digits.            *)
(* Coordinates are 0-based as in the source; sequences are 1-based.        *)
(***************************************************************************)
EXTENDS Naturals, Sequences, FiniteSets

\* ncalls counts the calls of draw on an array or vector, and of draw_to;
\* res is the Result returned by the last call of to_string or print
VARIABLES kind, buf, status, last, out, sprite, origin, ncalls, res

vars == <<kind, buf, status, last, out, sprite, origin, ncalls, res>>

(***************************************************************************)
(* Bounds of the model.                                                    *)
(***************************************************************************)
ArrW == 3
ArrH == 2
MaxCoord == 3
MaxVecCoord == 2
MaxSets == 1
MaxRows == 2
MaxCols == 2
MaxStrLen == 3
MaxSide == 3
MaxOffset == 1
MaxDraws == 2
ArtW == 4
ArtH == 3
MaxWrites == 2

(***************************************************************************)
(* Bytes and characters.                                                   *)
(***************************************************************************)
LF == 10
SP == 32

\* the chars '\n', ' ', 'a' and U+00E9 in UTF-8
NewlineChar == <<LF>>
SpaceChar == <<SP>>
AChar == <<97>>
EAcuteChar == <<195, 169>>

Chars == {AChar, SpaceChar, NewlineChar, EAcuteChar}

Elems == {0, 3, 12}
InitElems == {0, 3}
DefaultElem == 0

IsContinuation(b) == b >= 128 /\ b <= 191

IsWhitespace(b) == b = SP \/ b = LF \/ b = 9 \/ b = 11 \/ b = 12 \/ b = 13

\* str::is_char_boundary, index 0-based
is_char_boundary(s, i) ==
  \/ i = 0
  \/ i = Len(s)
  \/ i < Len(s) /\ ~IsContinuation(s[i + 1])

RECURSIVE Concat(_)
Concat(ss) == IF ss = <<>> THEN <<>> ELSE Head(ss) \o Concat(Tail(ss))

\* 1-based index of the first line feed of s, 0 when there is none
RECURSIVE FirstLF(_, _)
FirstLF(s, i) ==
  IF i > Len(s) THEN 0
  ELSE IF s[i] = LF THEN i
  ELSE FirstLF(s, i + 1)

StripCR(l) ==
  IF Len(l) > 0 /\ l[Len(l)] = 13 THEN SubSeq(l, 1, Len(l) - 1) ELSE l

\* str::lines: the pieces ended by a line feed, without the line feed (and
\* without a carriage return before it); a last piece with no line feed is
\* kept as it is; no empty last line after a final line feed.
RECURSIVE lines(_)
lines(s) ==
  IF s = <<>> THEN <<>>
  ELSE LET k == FirstLF(s, 1)
       IN IF k = 0 THEN <<s>>
          ELSE <<StripCR(SubSeq(s, 1, k - 1))>> \o lines(SubSeq(s, k + 1, Len(s)))

\* while rows.len() <= y { rows.push("") }
RECURSIVE PushRows(_, _)
PushRows(rows, y) ==
  IF Len(rows) <= y THEN PushRows(Append(rows, <<>>), y) ELSE rows

\* while row.len() <= x { row.push(' ') }
RECURSIVE PushSpaces(_, _)
PushSpaces(row, x) ==
  IF Len(row) <= x THEN PushSpaces(Append(row, SP), x) ELSE row

\* String::replace_range(x..=x, e): panics unless x and x + 1 are char
\* boundaries of row
ReplaceRangePanics(row, x) ==
  ~is_char_boundary(row, x) \/ ~is_char_boundary(row, x + 1)

\* replace_range with the empty range x..x: the char is inserted
replace_range_Inserting(row, x, e) ==
  SubSeq(row, 1, x) \o e \o SubSeq(row, x + 1, Len(row))

replace_range(row, x, e) ==
  SubSeq(row, 1, x) \o e \o SubSeq(row, x + 2, Len(row))

\* trim_end_matches(' '): spaces only
RECURSIVE trim_end_SpacesOnly(_)
trim_end_SpacesOnly(row) ==
  IF row # <<>> /\ row[Len(row)] = SP
  THEN trim_end_SpacesOnly(SubSeq(row, 1, Len(row) - 1))
  ELSE row

\* str::trim_end
RECURSIVE trim_end(_)
trim_end(row) ==
  IF row # <<>> /\ IsWhitespace(row[Len(row)])
  THEN trim_end(SubSeq(row, 1, Len(row) - 1))
  ELSE row

\* [&str]::join("\n")
RECURSIVE join(_)
join(rows) ==
  IF rows = <<>> THEN <<>>
  ELSE IF Len(rows) = 1 THEN rows[1]
  ELSE rows[1] \o <<LF>> \o join(Tail(rows))

\* draw that trims every row, not only row y
String_draw_TrimAll(s, x, y, e) ==
  LET rows == PushRows(lines(s), y)
      row == PushSpaces(rows[y + 1], x)
      written == [rows EXCEPT ![y + 1] = replace_range(row, x, e)]
  IN IF ReplaceRangePanics(row, x)
     THEN [ok |-> FALSE, buf |-> s]
     ELSE [ok |-> TRUE,
           buf |-> join([i \in 1..Len(written) |-> trim_end(written[i])])]

\* impl GridWriter for String :: draw
String_draw(s, x, y, e) ==
  LET rows == PushRows(lines(s), y)
      row == PushSpaces(rows[y + 1], x)
  IN IF ReplaceRangePanics(row, x)
     THEN [ok |-> FALSE, buf |-> s]
     ELSE [ok |-> TRUE,
           buf |-> join([rows EXCEPT ![y + 1] = trim_end(replace_range(row, x, e))])]

\* Vec::resize_with / Vec::resize
resize(v, n, fill) ==
  IF n <= Len(v) THEN SubSeq(v, 1, n)
  ELSE v \o [i \in 1..(n - Len(v)) |-> fill]

\* draw that resizes the rows to y + 2
Vec_draw_ExtraRow(v, x, y, e) ==
  LET grown == IF y >= Len(v) THEN resize(v, y + 2, <<>>) ELSE v
      row == grown[y + 1]
      padded == IF x >= Len(row) THEN resize(row, x + 1, DefaultElem) ELSE row
  IN [ok |-> TRUE,
      buf |-> [grown EXCEPT ![y + 1] = [padded EXCEPT ![x + 1] = e]]]

\* draw that pads the row with the element instead of the default
Vec_draw_PadWithElement(v, x, y, e) ==
  LET grown == IF y >= Len(v) THEN resize(v, y + 1, <<>>) ELSE v
      row == grown[y + 1]
      padded == IF x >= Len(row) THEN resize(row, x + 1, e) ELSE row
  IN [ok |-> TRUE,
      buf |-> [grown EXCEPT ![y + 1] = [padded EXCEPT ![x + 1] = e]]]

\* draw that resizes to y + 1 rows and x + 1 columns whatever the lengths
Vec_draw_Truncating(v, x, y, e) ==
  LET grown == resize(v, y + 1, <<>>)
      padded == resize(grown[y + 1], x + 1, DefaultElem)
  IN [ok |-> TRUE,
      buf |-> [grown EXCEPT ![y + 1] = [padded EXCEPT ![x + 1] = e]]]

\* impl GridWriter for Vec<Vec<T>> :: draw
Vec_draw(v, x, y, e) ==
  LET grown == IF y >= Len(v) THEN resize(v, y + 1, <<>>) ELSE v
      row == grown[y + 1]
      padded == IF x >= Len(row) THEN resize(row, x + 1, DefaultElem) ELSE row
  IN [ok |-> TRUE,
      buf |-> [grown EXCEPT ![y + 1] = [padded EXCEPT ![x + 1] = e]]]

\* draw that indexes self[x][y]
Array_draw_Transposed(a, x, y, e) ==
  IF x >= Len(a) \/ y >= Len(a[x + 1])
  THEN [ok |-> FALSE, buf |-> a]
  ELSE [ok |-> TRUE, buf |-> [a EXCEPT ![x + 1][y + 1] = e]]

\* draw that skips a position out of bounds instead of aborting
Array_draw_Skipping(a, x, y, e) ==
  IF y >= Len(a) \/ x >= Len(a[y + 1])
  THEN [ok |-> TRUE, buf |-> a]
  ELSE [ok |-> TRUE, buf |-> [a EXCEPT ![y + 1][x + 1] = e]]

\* impl GridWriter for [[T; W]; H] :: draw
Array_draw(a, x, y, e) ==
  IF y >= Len(a) \/ x >= Len(a[y + 1])
  THEN [ok |-> FALSE, buf |-> a]
  ELSE [ok |-> TRUE, buf |-> [a EXCEPT ![y + 1][x + 1] = e]]

\* GridWriter::draw, dispatched on the implementing type
draw(k, b, x, y, e) ==
  IF k = "array" THEN Array_draw(b, x, y, e)
  ELSE IF k = "vec" THEN Vec_draw(b, x, y, e)
  ELSE String_draw(b, x, y, e)

(***************************************************************************)
(* Display of an element and DisplayGrid::print.                           *)
(***************************************************************************)
RECURSIVE Display(_)
Display(n) ==
  IF n < 10 THEN <<48 + n>> ELSE Display(n \div 10) \o <<48 + (n % 10)>>

\* for element in row { write!(stream, "{}", element)?; } writeln!(stream)?;
RECURSIVE RowWrites(_)
RowWrites(row) ==
  IF row = <<>> THEN <<<<LF>>>>
  ELSE <<Display(Head(row))>> \o RowWrites(Tail(row))

\* print that puts the line feed between the rows only
RECURSIVE Grid_print_Separated(_)
Grid_print_Separated(g) ==
  IF g = <<>> THEN <<>>
  ELSE IF Len(g) = 1 THEN SubSeq(RowWrites(g[1]), 1, Len(g[1]))
  ELSE RowWrites(Head(g)) \o Grid_print_Separated(Tail(g))

\* for row in self { ... }: the sequence of writes made to the stream
RECURSIVE Grid_print(_)
Grid_print(g) ==
  IF g = <<>> THEN <<>>
  ELSE RowWrites(Head(g)) \o Grid_print(Tail(g))

\* print with writeln!: a line feed after the content
String_print_Line(s) == <<s, <<LF>>>>

\* impl DisplayGrid for String :: print
String_print(s) == <<s>>

\* a DisplayGrid of the caller, as in the tests' MyGrid: print makes the
\* writes the grid is made of, one after the other
MyGrid_print(g) == g

\* DisplayGrid::print, dispatched on the implementing type: the writes made
print(k, b) ==
  IF k = "string" THEN String_print(b)
  ELSE IF k = "custom" THEN MyGrid_print(b)
  ELSE Grid_print(b)

(***************************************************************************)
(* The stream of print.  A stream is a Vec<u8>, which accepts every write, *)
(* or a sink with room for a number of bytes that rejects, with its error, *)
(* the write_all that does not fit, after taking the part that fits when   *)
(* partial is set.                                                         *)
(***************************************************************************)
VecSink == [limited |-> FALSE, room |-> 0, partial |-> FALSE, err |-> "none"]

LimitedSink(room, partial, err) ==
  [limited |-> TRUE, room |-> room, partial |-> partial, err |-> err]

\* io::Write::write_all(chunk) on a stream that has accepted acc
write_all(sink, acc, chunk) ==
  IF chunk = <<>> \/ ~sink.limited \/ Len(acc) + Len(chunk) <= sink.room
  THEN [ok |-> TRUE, out |-> acc \o chunk]
  ELSE [ok |-> FALSE, err |-> sink.err,
        out |-> IF sink.partial THEN acc \o SubSeq(chunk, 1, sink.room - Len(acc)) ELSE acc]

\* the writes of print with their results dropped: the error of a write is
\* kept but the later writes are made
RECURSIVE WriteEach_GoingOn(_, _, _, _)
WriteEach_GoingOn(writes, sink, acc, made) ==
  IF writes = <<>> THEN [ok |-> TRUE, out |-> acc, made |-> made]
  ELSE LET r == write_all(sink, acc, Head(writes))
           rest == WriteEach_GoingOn(Tail(writes), sink, r.out, Append(made, Head(writes)))
       IN IF r.ok THEN rest
          ELSE [ok |-> FALSE, err |-> r.err, out |-> rest.out, made |-> rest.made]

\* the writes of print, each followed by `?`: the first error is returned
\* and no later write is made
RECURSIVE WriteEach(_, _, _, _)
WriteEach(writes, sink, acc, made) ==
  IF writes = <<>> THEN [ok |-> TRUE, out |-> acc, made |-> made]
  ELSE LET r == write_all(sink, acc, Head(writes))
       IN IF r.ok THEN WriteEach(Tail(writes), sink, r.out, Append(made, Head(writes)))
          ELSE [ok |-> FALSE, err |-> r.err, out |-> r.out,
                made |-> Append(made, Head(writes))]

\* the number of bytes of the UTF-8 sequence that lead byte b starts, 0 when
\* b starts none (overlong and surrogate forms are not told apart)
Utf8Width(b) ==
  IF b < 128 THEN 1
  ELSE IF b >= 194 /\ b <= 223 THEN 2
  ELSE IF b >= 224 /\ b <= 239 THEN 3
  ELSE IF b >= 240 /\ b <= 244 THEN 4
  ELSE 0

\* the bytes from index i on are whole UTF-8 sequences
RECURSIVE Utf8ValidFrom(_, _)
Utf8ValidFrom(bytes, i) ==
  IF i > Len(bytes) THEN TRUE
  ELSE LET w == Utf8Width(bytes[i])
       IN /\ w > 0
          /\ i + w - 1 <= Len(bytes)
          /\ \A j \in (i + 1)..(i + w - 1) : IsContinuation(bytes[j])
          /\ Utf8ValidFrom(bytes, i + w)

\* String::from_utf8
from_utf8(bytes) ==
  IF Utf8ValidFrom(bytes, 1) THEN [ok |-> TRUE, val |-> bytes]
  ELSE [ok |-> FALSE, err |-> "FromUtf8Error"]

\* to_string that decodes every write by itself
DisplayGrid_to_string_PerWrite(k, b) ==
  IF \A i \in 1..Len(print(k, b)) : Utf8ValidFrom(print(k, b)[i], 1)
  THEN [ok |-> TRUE, val |-> Concat(print(k, b))]
  ELSE [ok |-> FALSE, err |-> "FromUtf8Error"]

\* DisplayGrid::to_string, the provided method: print into a new Vec, unwrap,
\* String::from_utf8
DisplayGrid_to_string(k, b) ==
  from_utf8(WriteEach(print(k, b), VecSink, <<>>, <<>>).out)

\* impl DisplayGrid for String :: to_string
String_to_string(s) == [ok |-> TRUE, val |-> s]

to_string(k, b) ==
  IF k = "string" THEN String_to_string(b) ELSE DisplayGrid_to_string(k, b)

(***************************************************************************)
(* Initial buffers.                                                        *)
(***************************************************************************)
SeqsUpTo(S, n) == UNION {[1..m -> S] : m \in 0..n}

RECURSIVE CharSeqs(_)
CharSeqs(n) ==
  IF n = 0 THEN {<<>>}
  ELSE LET shorter == CharSeqs(n - 1)
       IN shorter \cup {s \o c : s \in shorter, c \in Chars}

InitStrings == {s \in CharSeqs(MaxStrLen) : Len(s) <= MaxStrLen}
InitVecs == SeqsUpTo(SeqsUpTo({3}, MaxCols), MaxRows)
InitArrays ==
  {[i \in 1..ArrH |-> [j \in 1..ArrW |-> IF (i + j) % 2 = 0 THEN a ELSE b]] :
     a \in InitElems, b \in InitElems}

NoOp == [op |-> "none", x |-> 0, y |-> 0, e |-> 0, pre |-> <<>>, calls |-> <<>>]
NoSprite == [type |-> "none"]
NoResult == [ok |-> TRUE]

Init ==
  /\ kind \in {"array", "vec", "string"}
  /\ buf \in (IF kind = "array" THEN InitArrays
              ELSE IF kind = "vec" THEN InitVecs
              ELSE InitStrings)
  /\ status = "ok"
  /\ last = NoOp
  /\ out = <<>>
  /\ sprite = NoSprite
  /\ origin = IF buf = <<>> THEN "new" ELSE "given"
  /\ ncalls = 0
  /\ res = NoResult

\* the buffers on which the model makes a further call of draw
Small(k, b) ==
  IF k = "string" THEN Len(b) <= MaxStrLen
  ELSE IF k = "vec"
  THEN ncalls < MaxSets /\ Len(b) <= MaxRows /\ \A i \in 1..Len(b) : Len(b[i]) <= MaxCols
  ELSE ncalls < MaxSets

XCoords(k) ==
  IF k = "array" THEN 0..ArrW ELSE IF k = "vec" THEN 0..MaxVecCoord ELSE 0..MaxCoord
YCoords(k) ==
  IF k = "array" THEN 0..ArrH ELSE IF k = "vec" THEN 0..MaxVecCoord ELSE 0..MaxCoord
ElemsOf(k) == IF k = "string" THEN Chars ELSE Elems

\* one call of GridWriter::draw (named set by its callers) on the buffer
Set(k) ==
  /\ kind = k
  /\ status = "ok"
  /\ Small(kind, buf)
  /\ \E x \in XCoords(k), y \in YCoords(k), e \in ElemsOf(k) :
       LET r == draw(k, buf, x, y, e)
       IN /\ buf' = r.buf
          /\ status' = IF r.ok THEN "ok" ELSE "panic"
          /\ last' = [op |-> "set", x |-> x, y |-> y, e |-> e, pre |-> buf,
                      calls |-> <<>>]
  /\ out' = <<>>
  /\ ncalls' = IF k = "string" THEN ncalls ELSE ncalls + 1
  /\ UNCHANGED <<kind, sprite, origin, res>>

ArraySet == Set("array")
VecSet == Set("vec")
StringSet == Set("string")

\* one call of DisplayGrid::print with a stream that accepts every write
WriteTo ==
  /\ status = "ok"
  /\ last.op # "print"
  /\ out' = Concat(print(kind, buf))
  /\ last' = [NoOp EXCEPT !.op = "print", !.pre = buf]
  /\ res' = [ok |-> TRUE]
  /\ UNCHANGED <<kind, buf, status, sprite, origin, ncalls>>

Next == ArraySet \/ VecSet \/ StringSet \/ WriteTo

Spec == Init /\ [][Next]_vars

(***************************************************************************)
(* Rendering: to_string and print into a stream that may reject a write.   *)
(***************************************************************************)
Chunks == {AChar, <<195>>, <<169>>}
SinkErrors == {"WriteZero", "BrokenPipe"}

\* vectors of up to MaxRows rows of up to MaxCols elements, two rows in turn
DisplayVecs ==
  {[i \in 1..h |-> IF i % 2 = 1 THEN r ELSE q] :
     h \in 0..MaxRows, r \in SeqsUpTo({0, 12}, MaxCols), q \in SeqsUpTo({0, 12}, MaxCols)}
DisplayArrays ==
  {[i \in 1..ArrH |-> [j \in 1..ArrW |-> IF (i + j) % 2 = 0 THEN a ELSE b]] :
     a \in Elems, b \in Elems}
DisplayCustoms == SeqsUpTo(Chunks, MaxWrites)

InitDisplay ==
  /\ kind \in {"array", "vec", "string", "custom"}
  /\ buf \in (IF kind = "array" THEN DisplayArrays
              ELSE IF kind = "vec" THEN DisplayVecs
              ELSE IF kind = "string" THEN InitStrings
              ELSE DisplayCustoms)
  /\ status = "ok"
  /\ last = NoOp
  /\ out = <<>>
  /\ sprite = NoSprite
  /\ origin = "given"
  /\ ncalls = 0
  /\ res = NoResult

\* one call of DisplayGrid::to_string
ToString ==
  /\ status = "ok"
  /\ res' = to_string(kind, buf)
  /\ last' = [NoOp EXCEPT !.op = "to_string", !.pre = buf]
  /\ out' = <<>>
  /\ UNCHANGED <<kind, buf, status, sprite, origin, ncalls>>

\* one call of DisplayGrid::print with a stream that has room for some bytes
\* only; last.e is the stream, last.calls the writes made, out the bytes the
\* stream has accepted.  print takes &self, so a call right after another
\* one starts from the same buffer and reaches the same states: it is left
\* out
WriteToSink ==
  /\ status = "ok"
  /\ last.op # "print_to"
  /\ \E room \in 0..Len(Concat(print(kind, buf))), partial \in BOOLEAN, err \in SinkErrors :
       LET sink == LimitedSink(room, partial, err)
           r == WriteEach(print(kind, buf), sink, <<>>, <<>>)
       IN /\ res' = IF r.ok THEN [ok |-> TRUE] ELSE [ok |-> FALSE, err |-> r.err]
          /\ out' = r.out
          /\ last' = [op |-> "print_to", x |-> 0, y |-> 0, e |-> sink, pre |-> buf,
                      calls |-> r.made]
  /\ UNCHANGED <<kind, buf, status, sprite, origin, ncalls>>

NextDisplay == ToString \/ WriteTo \/ WriteToSink

SpecDisplay == InitDisplay /\ [][NextDisplay]_vars

(***************************************************************************)
(* grux::art: the sprites.  A call is one to.set((x, y), e).               *)
(***************************************************************************)
Call(x, y, e) == [x |-> x, y |-> y, e |-> e]

\* Line::horizontal
Line_horizontal(length, render) ==
  [type |-> "Line", length |-> length, render |-> render, orientation |-> "Horizontal"]

\* Line::vertical
Line_vertical(length, render) ==
  [type |-> "Line", length |-> length, render |-> render, orientation |-> "Vertical"]

\* FillRect::new
FillRect_new(width, height, render) ==
  [type |-> "FillRect", width |-> width, height |-> height, render |-> render]

\* new that asserts the width only
BorderRect_new_WidthOnly(width, height, render) ==
  IF ~(width >= 2) THEN [ok |-> FALSE, sprite |-> NoSprite]
  ELSE [ok |-> TRUE,
        sprite |-> [type |-> "BorderRect", width |-> width, height |-> height,
                    render |-> render]]

\* BorderRect::new: the two assertions, then the struct
BorderRect_new(width, height, render) ==
  IF ~(width >= 2) THEN [ok |-> FALSE, sprite |-> NoSprite]
  ELSE IF ~(height >= 2) THEN [ok |-> FALSE, sprite |-> NoSprite]
  ELSE [ok |-> TRUE,
        sprite |-> [type |-> "BorderRect", width |-> width, height |-> height,
                    render |-> render]]

\* Sprite::width
width(s) ==
  IF s.type = "Line"
  THEN (IF s.orientation = "Horizontal" THEN s.length ELSE 1)
  ELSE s.width

\* Sprite::height
height(s) ==
  IF s.type = "Line"
  THEN (IF s.orientation = "Horizontal" THEN 1 ELSE s.length)
  ELSE s.height

\* the accessors of the palette, render[0] .. render[7]
top_left(s) == s.render[1]
top(s) == s.render[2]
top_right(s) == s.render[3]
left(s) == s.render[4]
right(s) == s.render[5]
bottom_left(s) == s.render[6]
bottom(s) == s.render[7]
bottom_right(s) == s.render[8]

\* impl Sprite for Line :: draw_to, as the calls it makes in order
Line_draw_to(s, x, y) ==
  IF s.orientation = "Horizontal"
  THEN [k \in 1..s.length |-> Call(x + (k - 1), y, s.render)]
  ELSE [k \in 1..s.length |-> Call(x, y + (k - 1), s.render)]

\* draw_to with the inclusive range 0..=width
FillRect_draw_to_Inclusive(s, x, y) ==
  Concat([i \in 1..(s.width + 1) |->
            [j \in 1..s.height |-> Call(x + (i - 1), y + (j - 1), s.render)]])

\* impl Sprite for FillRect :: draw_to: for i in 0..width { for j in 0..height
FillRect_draw_to(s, x, y) ==
  Concat([i \in 1..s.width |->
            [j \in 1..s.height |-> Call(x + (i - 1), y + (j - 1), s.render)]])

\* draw_to whose edge loops start at 0, over the corners
BorderRect_draw_to_EdgesFromZero(s, x, y) ==
  LET w == s.width
      h == s.height
  IN Concat([k \in 1..(w - 1) |->
               <<Call(x + k - 1, y, s.render[2]), Call(x + k - 1, y + h - 1, s.render[7])>>])
     \o Concat([k \in 1..(h - 1) |->
               <<Call(x, y + k - 1, s.render[4]), Call(x + w - 1, y + k - 1, s.render[5])>>])
     \o << Call(x, y, s.render[1]),
           Call(x + w - 1, y, s.render[3]),
           Call(x, y + h - 1, s.render[6]),
           Call(x + w - 1, y + h - 1, s.render[8]) >>

\* impl Sprite for BorderRect :: draw_to
BorderRect_draw_to(s, x, y) ==
  LET w == width(s)
      h == height(s)
  IN Concat([i \in 1..(w - 2) |->
               <<Call(x + i, y, top(s)), Call(x + i, y + h - 1, bottom(s))>>])
     \o Concat([i \in 1..(h - 2) |->
               <<Call(x, y + i, left(s)), Call(x + w - 1, y + i, right(s))>>])
     \o << Call(x, y, top_left(s)),
           Call(x + w - 1, y, top_right(s)),
           Call(x, y + h - 1, bottom_left(s)),
           Call(x + w - 1, y + h - 1, bottom_right(s)) >>

\* Sprite::draw_to, dispatched on the implementing type
draw_to(s, x, y) ==
  IF s.type = "Line" THEN Line_draw_to(s, x, y)
  ELSE IF s.type = "FillRect" THEN FillRect_draw_to(s, x, y)
  ELSE BorderRect_draw_to(s, x, y)

\* the calls made one after the other on the target; a call that aborts is
\* the last one made
RECURSIVE ApplyCalls(_, _, _, _)
ApplyCalls(k, b, calls, made) ==
  IF calls = <<>> THEN [ok |-> TRUE, buf |-> b, made |-> made]
  ELSE LET c == Head(calls)
           r == draw(k, b, c.x, c.y, c.e)
       IN IF r.ok THEN ApplyCalls(k, r.buf, Tail(calls), Append(made, c))
          ELSE [ok |-> FALSE, buf |-> r.buf, made |-> Append(made, c)]

Palettes == {<<1, 2, 3, 4, 5, 6, 7, 8>>, <<9, 9, 9, 9, 9, 9, 9, 9>>}
Fills == {3, 12}
Sides == 0..MaxSide

InitArt ==
  /\ kind \in {"array", "vec"}
  /\ buf \in (IF kind = "array" THEN {[i \in 1..ArtH |-> [j \in 1..ArtW |-> e]] : e \in InitElems}
              ELSE {<<>>})
  /\ status = "ok"
  /\ last = NoOp
  /\ out = <<>>
  /\ sprite = NoSprite
  /\ origin = IF buf = <<>> THEN "new" ELSE "given"
  /\ ncalls = 0
  /\ res = NoResult

Constructed(s, op, w, h, e) ==
  /\ sprite' = s
  /\ last' = [op |-> op, x |-> w, y |-> h, e |-> e, pre |-> buf, calls |-> <<>>]
  /\ UNCHANGED <<kind, buf, status, out, origin, ncalls, res>>

NewLineHorizontal ==
  /\ status = "ok"
  /\ sprite = NoSprite
  /\ \E length \in Sides, render \in Fills :
       Constructed(Line_horizontal(length, render), "Line_horizontal", length, 1, render)

NewLineVertical ==
  /\ status = "ok"
  /\ sprite = NoSprite
  /\ \E length \in Sides, render \in Fills :
       Constructed(Line_vertical(length, render), "Line_vertical", 1, length, render)

NewFillRect ==
  /\ status = "ok"
  /\ sprite = NoSprite
  /\ \E w \in Sides, h \in Sides, render \in Fills :
       Constructed(FillRect_new(w, h, render), "FillRect_new", w, h, render)

NewBorderRect ==
  /\ status = "ok"
  /\ sprite = NoSprite
  /\ \E w \in Sides, h \in Sides, render \in Palettes :
       LET r == BorderRect_new(w, h, render)
       IN /\ sprite' = r.sprite
          /\ status' = IF r.ok THEN "ok" ELSE "panic"
          /\ last' = [op |-> "BorderRect_new", x |-> w, y |-> h, e |-> render,
                      pre |-> buf, calls |-> <<>>]
  /\ UNCHANGED <<kind, buf, out, origin, ncalls, res>>

\* one call of sprite.draw_to((x, y), &mut buf)
DrawTo ==
  /\ status = "ok"
  /\ sprite # NoSprite
  /\ ncalls < MaxDraws
  /\ \E x \in 0..MaxOffset, y \in 0..MaxOffset :
       LET r == ApplyCalls(kind, buf, draw_to(sprite, x, y), <<>>)
       IN /\ buf' = r.buf
          /\ status' = IF r.ok THEN "ok" ELSE "panic"
          /\ last' = [op |-> "draw_to", x |-> x, y |-> y, e |-> 0, pre |-> buf,
                      calls |-> r.made]
  /\ ncalls' = ncalls + 1
  /\ UNCHANGED <<kind, out, sprite, origin, res>>

NextArt ==
  NewLineHorizontal \/ NewLineVertical \/ NewFillRect \/ NewBorderRect \/ DrawTo

SpecArt == InitArt /\ [][NextArt]_vars

(***************************************************************************)
(* Vocabulary of the properties.                                           *)
(***************************************************************************)
AfterSet(k) == last.op = "set" /\ kind = k
Completed == status = "ok"

Max(a, b) == IF a >= b THEN a ELSE b

SingleByte(s) == \A i \in 1..Len(s) : s[i] < 128

EndsWithTwoLF(s) == Len(s) >= 2 /\ s[Len(s)] = LF /\ s[Len(s) - 1] = LF

\* the same call made once more on the current buffer
SetAgain == draw(kind, buf, last.x, last.y, last.e)

\* line i (0-based) of the lines of s, empty when s has no such line
LineOf(s, i) == IF i < Len(lines(s)) THEN lines(s)[i + 1] ELSE <<>>

\* the lines, each after the first preceded by one line feed
JoinedByLF(rows) == Concat([i \in 1..Len(rows) |-> IF i = 1 THEN rows[i] ELSE <<LF>> \o rows[i]])

\* t is row without its trailing whitespace
IsTrimOf(t, row) ==
  /\ Len(t) <= Len(row)
  /\ t = SubSeq(row, 1, Len(t))
  /\ \A i \in (Len(t) + 1)..Len(row) : IsWhitespace(row[i])
  /\ (t # <<>> => ~IsWhitespace(t[Len(t)]))

\* old padded with spaces to more than x bytes, byte x replaced by char e
PaddedAndReplaced(old, x, e) ==
  LET m == Max(Len(old), x + 1)
      padded == [i \in 1..m |-> IF i <= Len(old) THEN old[i] ELSE SP]
  IN [i \in 1..(m - 1 + Len(e)) |->
        IF i <= x THEN padded[i]
        ELSE IF i <= x + Len(e) THEN e[i - x]
        ELSE padded[i - Len(e) + 1]]

(***************************************************************************)
(* C1                                                                      *)
(***************************************************************************)
\* C1 as stated: for every buffer kind, content, accepted coordinate and
\* element, a set that completed, made once more, completes and leaves the
\* buffer as it is.
C1_SetTwiceIsSetOnce_AsStated ==
  (last.op = "set" /\ Completed) => SetAgain = [ok |-> TRUE, buf |-> buf]

\* C1 amended: set is idempotent on a fixed array and on a nested vector for
\* every content, accepted coordinate and element; on a string it is
\* idempotent when the element is a single-byte character other than a line
\* break and the content before the first set does not end with two line
\* breaks.
C1_SetTwiceIsSetOnce ==
  ( /\ last.op = "set"
    /\ Completed
    /\ kind = "string" => /\ SingleByte(last.e)
                          /\ last.e # NewlineChar
                          /\ ~EndsWithTwoLF(last.pre) )
  => SetAgain = [ok |-> TRUE, buf |-> buf]

C1_Witness ==
  /\ AfterSet("string")
  /\ Completed
  /\ last.e = SpaceChar
  /\ ~EndsWithTwoLF(last.pre)
  /\ Len(buf) < Len(last.pre)

(***************************************************************************)
(* C2                                                                      *)
(***************************************************************************)
\* C2: a completed set((x, y), c) on a string leaves max(n, y + 1) lines,
\* the missing ones empty, line y being the old line y padded with spaces
\* beyond x, with the one byte at x replaced by c and trailing whitespace
\* trimmed, all lines joined by single line feeds; set((3, 3), c) on the
\* empty string gives three line feeds, three spaces and c.
C2_StringSetEffect ==
  (AfterSet("string") /\ Completed) =>
    LET n == Len(lines(last.pre))
        replaced == PaddedAndReplaced(LineOf(last.pre, last.y), last.x, last.e)
        trimmed == CHOOSE t \in {SubSeq(replaced, 1, m) : m \in 0..Len(replaced)} :
                     IsTrimOf(t, replaced)
        new == [i \in 1..Max(n, last.y + 1) |->
                  IF i = last.y + 1 THEN trimmed ELSE LineOf(last.pre, i - 1)]
    IN /\ buf = JoinedByLF(new)
       /\ (last.pre = <<>> /\ last.x = 3 /\ last.y = 3 /\ last.e = AChar)
            => buf = <<LF, LF, LF, SP, SP, SP>> \o AChar

C2_Witness ==
  /\ AfterSet("string")
  /\ Completed
  /\ last.pre = <<>>
  /\ last.x = 3
  /\ last.y = 3
  /\ last.e = AChar

(***************************************************************************)
(* C3                                                                      *)
(***************************************************************************)
\* C3: on a nested vector of n rows, set((x, y), e) with y >= n leaves
\* exactly y + 1 rows, the first n unchanged and the new rows before row y
\* empty; with y < n the number of rows stays n.
C3_VecRowGrowth ==
  AfterSet("vec") =>
    LET n == Len(last.pre)
    IN IF last.y >= n
       THEN /\ Len(buf) = last.y + 1
            /\ \A i \in 1..n : buf[i] = last.pre[i]
            /\ \A i \in (n + 1)..last.y : buf[i] = <<>>
       ELSE Len(buf) = n

C3_Witness ==
  /\ AfterSet("vec")
  /\ Len(last.pre) = 1
  /\ last.pre[1] # <<>>
  /\ last.y = MaxVecCoord

(***************************************************************************)
(* C4                                                                      *)
(***************************************************************************)
\* C4: on a nested vector, set((x, y), e) with x >= L, the length of row y
\* (0 when the row is new), leaves row y of length x + 1 with its first L
\* elements, the default at L..x-1 and e at x; with x < L only index x of
\* row y changes; every other old row keeps content and length.
C4_VecColumnGrowth ==
  AfterSet("vec") =>
    LET n == Len(last.pre)
        oldRow == IF last.y < n THEN last.pre[last.y + 1] ELSE <<>>
        L == Len(oldRow)
        newRow == buf[last.y + 1]
    IN /\ IF last.x >= L
          THEN /\ Len(newRow) = last.x + 1
               /\ \A j \in 1..L : newRow[j] = oldRow[j]
               /\ \A j \in (L + 1)..last.x : newRow[j] = DefaultElem
          ELSE /\ Len(newRow) = L
               /\ \A j \in 1..L : j # last.x + 1 => newRow[j] = oldRow[j]
       /\ newRow[last.x + 1] = last.e
       /\ \A i \in 1..n : i # last.y + 1 => buf[i] = last.pre[i]

C4_Witness ==
  /\ AfterSet("vec")
  /\ Len(last.pre) = 2
  /\ last.y = 0
  /\ Len(last.pre[1]) = 1
  /\ last.pre[1][1] # DefaultElem
  /\ last.x = MaxVecCoord
  /\ last.e # DefaultElem

(***************************************************************************)
(* C5                                                                      *)
(***************************************************************************)
RowText(row) == Concat([j \in 1..Len(row) |-> Display(row[j])])

Rendered(g) == Concat(print("array", g))

\* the text between offsets, row by row, of a rendering of W columns
RenderedRows(g) == [i \in 1..Len(g) |-> RowText(g[i]) \o <<LF>>]

\* C5: on a fixed W x H array, set((x, y), e) with x < W and y < H makes
\* cell (row y, column x) equal to e, keeps every other cell and the
\* dimensions, and the rendering changes only in the text of column x of
\* row y.
C5_ArraySetFrame ==
  (AfterSet("array") /\ last.x < ArrW /\ last.y < ArrH) =>
    /\ Completed
    /\ Len(buf) = ArrH
    /\ \A i \in 1..ArrH : Len(buf[i]) = ArrW
    /\ buf[last.y + 1][last.x + 1] = last.e
    /\ \A i \in 1..ArrH : \A j \in 1..ArrW :
         (i # last.y + 1 \/ j # last.x + 1) => buf[i][j] = last.pre[i][j]
    /\ Rendered(buf) =
         Concat([i \in 1..ArrH |->
                   IF i = last.y + 1
                   THEN RowText(SubSeq(last.pre[i], 1, last.x)) \o Display(last.e)
                          \o RowText(SubSeq(last.pre[i], last.x + 2, ArrW)) \o <<LF>>
                   ELSE RenderedRows(last.pre)[i]])

C5_Witness ==
  /\ AfterSet("array")
  /\ last.x = ArrW - 1
  /\ last.y = 0
  /\ last.e = 12
  /\ last.pre[1][ArrW] = 3
  /\ Completed

(***************************************************************************)
(* C6                                                                      *)
(***************************************************************************)
LFOffsets(o) == {p \in 1..Len(o) : o[p] = LF}

\* the offset of the i-th line feed of o, 0 for i = 0
NthLF(o, i) ==
  IF i = 0 THEN 0
  ELSE CHOOSE p \in LFOffsets(o) : Cardinality({q \in LFOffsets(o) : q <= p}) = i

\* C6: print of an array or nested vector writes, for the rows in order,
\* the text forms of the row's elements with no separator and then one line
\* feed, the last row included: as many line feeds as rows, the i-th entry
\* being the text of row i, nothing after the last line feed.
C6_RenderRows ==
  (last.op = "print" /\ kind # "string") =>
    /\ Cardinality(LFOffsets(out)) = Len(buf)
    /\ (out # <<>> => out[Len(out)] = LF)
    /\ (buf = <<>> => out = <<>>)
    /\ \A i \in 1..Len(buf) :
         SubSeq(out, NthLF(out, i - 1) + 1, NthLF(out, i) - 1) = RowText(buf[i])

C6_Witness ==
  /\ last.op = "print"
  /\ kind = "vec"
  /\ Len(buf) = 3
  /\ buf[2] = <<>>
  /\ buf[3] = <<0, 0, 12>>
  /\ out = <<10, 10, 48, 48, 49, 50, 10>>

(***************************************************************************)
(* C7                                                                      *)
(***************************************************************************)
OutOfBounds == last.x >= ArrW \/ last.y >= ArrH

\* C7 as stated: set on a vector or string that was built by set calls from
\* an empty one always completes; set on an array fails exactly when x >= W
\* or y >= H.
C7_SetCompletes_AsStated ==
  (last.op = "set" /\ (kind = "array" \/ origin = "new")) =>
    (status = "panic" <=> (kind = "array" /\ OutOfBounds))

\* offset x of line y of the content lies on a character of more than one
\* byte: x or x + 1 is inside such a character
OnMultiByte(s, x, y) ==
  LET row == LineOf(s, y)
  IN \/ x < Len(row) /\ IsContinuation(row[x + 1])
     \/ x + 1 < Len(row) /\ IsContinuation(row[x + 2])

\* C7 amended: set never returns an error value; on a nested vector it
\* always completes; on a string it completes unless offset x of line y
\* lies on a multi-byte character, where it aborts (so it always completes
\* on single-byte content); on a W x H array it completes exactly when
\* x < W and y < H and aborts otherwise.
C7_SetCompletes ==
  last.op = "set" =>
    /\ status \in {"ok", "panic"}
    /\ status = "panic" <=>
         \/ kind = "array" /\ OutOfBounds
         \/ kind = "string" /\ OnMultiByte(last.pre, last.x, last.y)
    /\ (kind = "string" /\ SingleByte(last.pre)) => Completed

C7_Witness ==
  /\ AfterSet("string")
  /\ origin = "new"
  /\ SingleByte(last.pre)
  /\ last.pre # <<>>
  /\ last.x = 3
  /\ last.y = 3
  /\ last.e = EAcuteChar
  /\ Completed

C7_WitnessArrayAbort ==
  AfterSet("array") /\ last.x = ArrW /\ last.y = 0 /\ status = "panic"

(***************************************************************************)
(* C8                                                                      *)
(***************************************************************************)
AfterDrawOf(types) == last.op = "draw_to" /\ sprite.type \in types

\* the cells (x + i, y + j), i < w, j < h
Footprint(x, y, w, h) == {<<x + i, y + j>> : i \in 0..(w - 1), j \in 0..(h - 1)}

CallsAt(cell) == {k \in 1..Len(last.calls) : <<last.calls[k].x, last.calls[k].y>> = cell}

Written == {<<last.calls[k].x, last.calls[k].y>> : k \in 1..Len(last.calls)}

ArtCells == {<<j - 1, i - 1>> : i \in 1..ArtH, j \in 1..ArtW}

\* C8: draw_to((x, y)) of a Line or FillRect calls set only on cells
\* (x + i, y + j), i < width(), j < height(), always with the fill element,
\* and when it completes it has set every such cell; (width(), height()) is
\* (length, 1), (1, length) or the configured (width, height); on a fixed
\* array the cells outside the footprint are unchanged and those inside
\* hold the fill element.
C8_LineAndFillFootprint ==
  AfterDrawOf({"Line", "FillRect"}) =>
    LET w == IF sprite.type = "FillRect" THEN sprite.width
             ELSE IF sprite.orientation = "Horizontal" THEN sprite.length ELSE 1
        h == IF sprite.type = "FillRect" THEN sprite.height
             ELSE IF sprite.orientation = "Horizontal" THEN 1 ELSE sprite.length
        fp == Footprint(last.x, last.y, w, h)
    IN /\ width(sprite) = w
       /\ height(sprite) = h
       /\ Written \subseteq fp
       /\ \A k \in 1..Len(last.calls) : last.calls[k].e = sprite.render
       /\ Completed => /\ Written = fp
                       /\ Len(last.calls) = w * h
                       /\ \A c \in fp : buf[c[2] + 1][c[1] + 1] = sprite.render
       /\ kind = "array" =>
            \A c \in ArtCells \ fp :
              buf[c[2] + 1][c[1] + 1] = last.pre[c[2] + 1][c[1] + 1]

C8_Witness ==
  /\ AfterDrawOf({"FillRect"})
  /\ kind = "array"
  /\ Completed
  /\ sprite.width = 3
  /\ sprite.height = 2
  /\ last.x = 1
  /\ last.y = 1
  /\ ncalls = 2
  /\ buf[1][1] # last.pre[2][2]

C8_WitnessLine ==
  /\ AfterDrawOf({"Line"})
  /\ kind = "array"
  /\ Completed
  /\ sprite.orientation = "Vertical"
  /\ sprite.length = 3

(***************************************************************************)
(* C9                                                                      *)
(***************************************************************************)
\* the palette entry the border has at local cell (i, j) of a w x h rectangle
BorderEntry(s, i, j, w, h) ==
  IF j = 0 THEN (IF i = 0 THEN s.render[1] ELSE IF i = w - 1 THEN s.render[3] ELSE s.render[2])
  ELSE IF j = h - 1 THEN (IF i = 0 THEN s.render[6] ELSE IF i = w - 1 THEN s.render[8] ELSE s.render[7])
  ELSE IF i = 0 THEN s.render[4]
  ELSE s.render[5]

Perimeter(x, y, w, h) ==
  {c \in Footprint(x, y, w, h) :
     c[1] = x \/ c[1] = x + w - 1 \/ c[2] = y \/ c[2] = y + h - 1}

\* C9: draw_to((x, y)) of a BorderRect of width w >= 2 and height h >= 2
\* calls set only on perimeter cells of the w x h rectangle at the offset,
\* never twice on one cell, with the palette entry of that corner or edge;
\* when it completes every perimeter cell has been written once and, on a
\* fixed array, interior and outside cells are unchanged.
C9_BorderPerimeter ==
  AfterDrawOf({"BorderRect"}) =>
    LET w == sprite.width
        h == sprite.height
        per == Perimeter(last.x, last.y, w, h)
    IN /\ w >= 2 /\ h >= 2
       /\ Written \subseteq per
       /\ \A c \in Written : Cardinality(CallsAt(c)) = 1
       /\ \A k \in 1..Len(last.calls) :
            last.calls[k].e = BorderEntry(sprite, last.calls[k].x - last.x,
                                          last.calls[k].y - last.y, w, h)
       /\ Completed =>
            /\ Written = per
            /\ \A c \in per :
                 buf[c[2] + 1][c[1] + 1] = BorderEntry(sprite, c[1] - last.x, c[2] - last.y, w, h)
       /\ kind = "array" =>
            \A c \in ArtCells \ per :
              buf[c[2] + 1][c[1] + 1] = last.pre[c[2] + 1][c[1] + 1]

C9_Witness ==
  /\ AfterDrawOf({"BorderRect"})
  /\ kind = "array"
  /\ Completed
  /\ sprite.width = 3
  /\ sprite.height = 3
  /\ sprite.render = <<1, 2, 3, 4, 5, 6, 7, 8>>
  /\ last.x = 1
  /\ last.y = 0
  /\ buf[1] = <<last.pre[1][1], 1, 2, 3>>
  /\ buf[2] = <<last.pre[2][1], 4, last.pre[2][3], 5>>
  /\ buf[3] = <<last.pre[3][1], 6, 7, 8>>

(***************************************************************************)
(* C10                                                                     *)
(***************************************************************************)
\* C10: BorderRect::new(width, height, palette) aborts when width < 2 or
\* height < 2, and for width >= 2 and height >= 2 returns, for every
\* palette, a sprite with that palette whose width() and height() are the
\* arguments.
C10_BorderConstruction ==
  last.op = "BorderRect_new" =>
    /\ status = "panic" <=> (last.x < 2 \/ last.y < 2)
    /\ status = "panic" => sprite = NoSprite
    /\ Completed => /\ sprite.type = "BorderRect"
                    /\ width(sprite) = last.x
                    /\ height(sprite) = last.y
                    /\ sprite.render = last.e

C10_Witness ==
  /\ last.op = "BorderRect_new"
  /\ last.x = 2
  /\ last.y = 3
  /\ Completed
  /\ width(sprite) = 2
  /\ height(sprite) = 3

C10_WitnessAbort ==
  last.op = "BorderRect_new" /\ last.x = 3 /\ last.y = 1 /\ status = "panic"

(***************************************************************************)
(* C11                                                                     *)
(***************************************************************************)
\* text of one- and two-byte characters: every byte is ASCII, the lead of a
\* two-byte character followed by a continuation byte, or a continuation
\* byte that follows such a lead
IsText(bytes) ==
  \A i \in 1..Len(bytes) :
    \/ bytes[i] < 128
    \/ /\ bytes[i] >= 194 /\ bytes[i] <= 223
       /\ i < Len(bytes) /\ IsContinuation(bytes[i + 1])
    \/ /\ IsContinuation(bytes[i])
       /\ i > 1 /\ bytes[i - 1] >= 194 /\ bytes[i - 1] <= 223

\* the bytes print writes, in order, to a stream that accepts them all
Streamed == Concat(print(kind, buf))

\* C11: the provided to_string returns the bytes that print writes, in the
\* same order, as text, and a decoding error when these bytes are not valid
\* text; for a fixed array and a nested vector it always returns the text
\* of the streamed bytes.
C11_ToStringDecodesPrint ==
  (last.op = "to_string" /\ kind # "string") =>
    /\ IF IsText(Streamed)
       THEN res = [ok |-> TRUE, val |-> Streamed]
       ELSE res = [ok |-> FALSE, err |-> "FromUtf8Error"]
    /\ kind \in {"array", "vec"} => res = [ok |-> TRUE, val |-> Streamed]
    /\ buf = last.pre

C11_Witness ==
  /\ last.op = "to_string"
  /\ kind = "custom"
  /\ buf = <<<<195>>, <<169>>>>
  /\ res = [ok |-> TRUE, val |-> <<195, 169>>]

C11_WitnessError ==
  /\ last.op = "to_string"
  /\ kind = "custom"
  /\ buf = <<AChar, <<169>>>>
  /\ ~res.ok

C11_WitnessVec ==
  /\ last.op = "to_string"
  /\ kind = "vec"
  /\ buf = <<<<>>, <<0, 12>>>>
  /\ res = [ok |-> TRUE, val |-> <<10, 48, 49, 50, 10>>]

(***************************************************************************)
(* C12                                                                     *)
(***************************************************************************)
\* C12: for a String, to_string returns the content as it is, print writes
\* exactly the content to the stream, with no line break added or removed,
\* and neither changes the String.
C12_StringRenderedVerbatim ==
  kind = "string" =>
    /\ last.op = "to_string" => (res = [ok |-> TRUE, val |-> buf] /\ buf = last.pre)
    /\ last.op = "print" => (out = buf /\ res.ok /\ buf = last.pre)
    /\ (last.op = "print_to" /\ res.ok) => (out = buf /\ buf = last.pre)

C12_Witness ==
  /\ kind = "string"
  /\ last.op = "print"
  /\ buf = AChar \o NewlineChar \o NewlineChar
  /\ out = buf

C12_WitnessToString ==
  /\ kind = "string"
  /\ last.op = "to_string"
  /\ buf = AChar \o NewlineChar
  /\ res.val = buf

(***************************************************************************)
(* C13                                                                     *)
(***************************************************************************)
IsPrefix(p, t) == Len(p) <= Len(t) /\ p = SubSeq(t, 1, Len(p))

\* the number of bytes of the first k writes
BytesOf(ws, k) == Len(Concat(SubSeq(ws, 1, k)))

\* C13: when the stream rejects a write of print on a fixed array or nested
\* vector, print returns the error of the stream, the rejected write is the
\* last one made (the first that does not fit; all before it were
\* accepted), the accepted bytes are a prefix of the whole rendering, and
\* the buffer is unchanged.
C13_SinkErrorPropagated ==
  (last.op = "print_to" /\ kind \in {"array", "vec"} /\ ~res.ok) =>
    LET ws == print(kind, buf)
        n == Len(last.calls)
    IN /\ res = [ok |-> FALSE, err |-> last.e.err]
       /\ n >= 1 /\ n <= Len(ws)
       /\ last.calls = SubSeq(ws, 1, n)
       /\ BytesOf(ws, n) > last.e.room
       /\ BytesOf(ws, n - 1) <= last.e.room
       /\ IsPrefix(out, Streamed)
       /\ Len(out) >= BytesOf(ws, n - 1)
       /\ Len(out) <= last.e.room
       /\ buf = last.pre

C13_Witness ==
  /\ last.op = "print_to"
  /\ kind = "vec"
  /\ buf = <<<<12, 0>>, <<0>>>>
  /\ last.e = LimitedSink(1, TRUE, "BrokenPipe")
  /\ res = [ok |-> FALSE, err |-> "BrokenPipe"]
  /\ out = <<49>>
  /\ Len(last.calls) = 1

(***************************************************************************)
(* C14                                                                     *)
(***************************************************************************)
\* the rows of a nested vector, the lines of a String
Rows(k, b) == IF k = "string" THEN lines(b) ELSE b

\* row i (0-based), empty when there is no such row
RowAt(k, b, i) == IF i < Len(Rows(k, b)) THEN Rows(k, b)[i + 1] ELSE <<>>

\* post has no fewer rows than pre, no row of pre is shorter in post, and a
\* String has no fewer bytes
NoSmaller(k, pre, post) ==
  /\ Len(Rows(k, post)) >= Len(Rows(k, pre))
  /\ \A i \in 0..(Len(Rows(k, pre)) - 1) : Len(RowAt(k, post, i)) >= Len(RowAt(k, pre, i))
  /\ k = "string" => Len(post) >= Len(pre)

\* the last call compared with the calls on the same buffer that ask for a
\* larger x or a larger y: more y gives no fewer rows, more x no shorter
\* row y
GrowthFollowsCoordinate ==
  /\ \A y2 \in YCoords(kind) :
       LET r2 == draw(kind, last.pre, last.x, y2, last.e)
       IN (y2 >= last.y /\ r2.ok) =>
            Len(Rows(kind, r2.buf)) >= Len(Rows(kind, buf))
  /\ \A x2 \in XCoords(kind) :
       LET r2 == draw(kind, last.pre, x2, last.y, last.e)
       IN (x2 >= last.x /\ r2.ok) =>
            Len(RowAt(kind, r2.buf, last.y)) >= Len(RowAt(kind, buf, last.y))

EndsWithLF(s) == s # <<>> /\ s[Len(s)] = LF

EndsWithWhitespace(s) == s # <<>> /\ IsWhitespace(s[Len(s)])

\* C14 as stated: every set on a nested vector or a String that completes
\* leaves the number of rows (lines), the length of every row (line) there
\* was and, for the String, the length of the content no smaller, and the
\* same call with a larger coordinate gives no smaller a buffer.
C14_OnlyGrows_AsStated ==
  (last.op = "set" /\ kind \in {"vec", "string"} /\ Completed) =>
    /\ NoSmaller(kind, last.pre, buf)
    /\ GrowthFollowsCoordinate

\* C14: every set on a nested vector leaves the number of rows and the
\* length of every row there was no smaller; so does, for the lines and the
\* length of the content, every set on a String that completes, when the
\* element is not whitespace, the content before the call does not end with
\* a line break and line y does not end with whitespace.  On a nested
\* vector, and on a String when the element is not whitespace, the same
\* call with a larger y gives no fewer rows (lines) and with a larger x no
\* shorter a row (line) y.
C14_OnlyGrows ==
  (last.op = "set" /\ kind \in {"vec", "string"} /\ Completed) =>
    /\ (kind = "string" =>
          /\ ~IsWhitespace(last.e[1])
          /\ ~EndsWithLF(last.pre)
          /\ ~EndsWithWhitespace(LineOf(last.pre, last.y)))
         => NoSmaller(kind, last.pre, buf)
    /\ (kind = "string" => ~IsWhitespace(last.e[1])) => GrowthFollowsCoordinate

C14_Witness ==
  /\ AfterSet("string") /\ Completed
  /\ last.pre = AChar \o NewlineChar \o AChar
  /\ last.x = 2 /\ last.y = 1 /\ last.e = EAcuteChar
  /\ buf = AChar \o NewlineChar \o AChar \o SpaceChar \o EAcuteChar

C14_WitnessVec ==
  /\ AfterSet("vec") /\ Completed
  /\ last.pre = <<<<3, 3>>>>
  /\ last.x = 0 /\ last.y = 2
  /\ buf = <<<<3, 3>>, <<>>, <<12>>>>

(***************************************************************************)
(* C15                                                                     *)
(***************************************************************************)
\* the pieces of s between its line feeds, a last empty piece after a final
\* line feed included
RECURSIVE Pieces(_)
Pieces(s) ==
  LET k == FirstLF(s, 1)
  IN IF k = 0 THEN <<s>>
     ELSE <<SubSeq(s, 1, k - 1)>> \o Pieces(SubSeq(s, k + 1, Len(s)))

\* every byte of the new row at an offset other than x is the byte of the
\* old row at this offset, a space where the old row has none
SameButAt(new, old, x) ==
  \A j \in 0..(Len(new) - 1) :
    j # x => new[j + 1] = (IF j < Len(old) THEN old[j + 1] ELSE SP)

\* C15 as stated: a set((x, y), c) that completes on a String of n lines
\* gives a String of exactly max(n, y + 1) lines, every line other than y
\* equal to the line of the same index before the call (empty if new), and
\* in line y every character at an offset other than x unchanged.
C15_StringSetFrame_AsStated ==
  (AfterSet("string") /\ Completed) =>
    LET n == Len(lines(last.pre))
    IN /\ Len(lines(buf)) = Max(n, last.y + 1)
       /\ \A i \in 0..(Max(n, last.y + 1) - 1) :
            i # last.y => LineOf(buf, i) = LineOf(last.pre, i)
       /\ SameButAt(LineOf(buf, last.y), LineOf(last.pre, last.y), last.x)

\* C15: a set((x, y), c) that completes on a String of n lines, c a
\* single-byte character other than a line feed, gives a String that has,
\* between its line feeds, exactly max(n, y + 1) pieces (the last of them is
\* not a line of the result when it is empty), every piece other than y
\* equal to the line of the same index before the call (empty if new), and
\* in piece y every byte at an offset other than x the byte that was there
\* (a space beyond the old end of the line).
C15_StringSetFrame ==
  (AfterSet("string") /\ Completed /\ SingleByte(last.e) /\ last.e # NewlineChar) =>
    LET n == Len(lines(last.pre))
        ps == Pieces(buf)
    IN /\ Len(ps) = Max(n, last.y + 1)
       /\ \A i \in 0..(Len(ps) - 1) :
            i # last.y => ps[i + 1] = LineOf(last.pre, i)
       /\ Len(ps) > last.y
       /\ SameButAt(ps[last.y + 1], LineOf(last.pre, last.y), last.x)
       /\ lines(buf) = IF ps[Len(ps)] = <<>> THEN SubSeq(ps, 1, Len(ps) - 1) ELSE ps

C15_Witness ==
  /\ AfterSet("string") /\ Completed
  /\ last.pre = SpaceChar \o NewlineChar \o NewlineChar
  /\ last.x = 1 /\ last.y = 0 /\ last.e = SpaceChar
  /\ buf = NewlineChar
  /\ Pieces(buf) = <<<<>>, <<>>>>
  /\ Len(lines(buf)) = 1

C15_WitnessGrown ==
  /\ AfterSet("string") /\ Completed
  /\ last.pre = AChar \o SpaceChar \o NewlineChar
  /\ last.x = 2 /\ last.y = 2 /\ last.e = AChar
  /\ buf = AChar \o SpaceChar \o NewlineChar \o NewlineChar \o SpaceChar \o SpaceChar \o AChar

====
